---- MODULE Spec2Model ----
(***************************************************************************)
(* A model of the inverted-index pipeline of WSE_HW2:                      *)
(*   indexer.cpp            Block Builder: tokenised lines -> run files    *)
(*   merger.cpp             k-way merge of run files -> index.bin, lexicon *)
(*   Final_bin_reverse.cpp  reads index.bin back through the lexicon       *)
(*   bin_reverse.cpp        dumps a run file                               *)
(*   query.cpp              list reader over the blocked index (nextGEQ)   *)
(*                                                                         *)
(* Files are sequences of bytes (0..255).  A term is a sequence of         *)
(* character codes.  C++ `int` values are TLA+ integers in                 *)
(* -2^31 .. 2^31-1; a uint32_t that does not fit is the pair <<hi, lo>> of *)
(* its 16-bit halves.                                                      *)
(*                                                                         *)
(* The specifications share the variables:                                 *)
(*   Spec          the Block Builder, then the Merger, then the read-back  *)
(*   SpecCodec     the varbyte encoder and the reader-side decoders        *)
(*   SpecTruncated the Merger on run files that end early                  *)
(*   SpecTokenize  the tokenizer                                           *)
(*   SpecQuery     nextGEQ over a well-formed blocked index                *)
(*   SpecOpenList  readInvertedIndices: openList calls on one stream       *)
(*   SpecLoad      loadLexicon and loadBlockMetaData on text files         *)
(*   SpecBigIndex  block offsets and first-block lookup past 2^31 bytes    *)
(***************************************************************************)
EXTENDS Integers, Sequences, FiniteSets, TLC

VARIABLES
    \* ---- codec (SpecCodec)
    cvals,            \* the uint32 inputs, each <<hi, lo>>
    cbytes,           \* their concatenated varbyte encodings
    cdec,             \* the decoded integers
    cerr,             \* the error the decoder raised, "none" when it returned
    cpc,              \* "input" | "encoded" | "truncated" | "decodedVec" |
                      \* "decodedStream" | "truncDecodedVec" | "truncDecodedStream" | "off"
    \* ---- Block Builder (indexer.cpp)
    linesRead,        \* number of input lines consumed so far
    collection,       \* history: the lines read
    invertedIndex,    \* the accumulator: term -> sequence of Posting
    currentBlockSize, \* the size estimate
    blockCount,       \* number of run files written
    runFiles,         \* the run files intermediate_<k>.bin, as byte sequences
    runRecords,       \* history: the records of each run file, in file order
    passage,          \* the text tokenize is given
    tokens,           \* the tokens it returned
    bpc,              \* "reading" | "done" | "tokenizing" | "tokenized" | "off"
    \* ---- Merger (merger.cpp)
    readers,          \* one PostingFileReader per run file
    minHeap,          \* the priority queue: a set of <<term, fileIdx>>
    smallestTerm,
    mergedPostings,
    mergedFrom,       \* history: the records mergedPostings was collected from,
                      \* each as <<fileIdx, the reader's position after it>>
    indexFile,        \* the bytes of index.bin
    currentOffset,
    lexicon,          \* sequence of LexiconEntry
    emitted,          \* history: per lexicon entry, what was written and where
    pageTable,        \* the docIDs of the page table entries
    mpc,              \* "idle" | "loop" | "same" | "done" | "error" | "off"
    \* ---- read-back (Final_bin_reverse.cpp)
    rbNext,           \* index of the next lexicon entry to read back
    rbGood,           \* the stream's good() state
    rbLists,          \* per lexicon entry read so far, what readPostings returned
    rbpc,             \* "idle" | "reading" | "done" | "error" | "off"
    \* ---- list reader (query.cpp)
    qindex,           \* the loaded index: lexiconMap, blockMetaDataVec, index bytes
    qterm,            \* the term whose list is open
    qlist,            \* the buffer openList returned for it
    qtarget,          \* lookUpDocID
    qres,             \* what nextGEQ returned, with what it read on the way
    qprev,            \* history: target and result of the call before, or <<>>
    qfiles,           \* lexicon.txt and blockMetaData.txt as lines of tokens,
                      \* index.bin as bytes
    qquery,           \* the terms readInvertedIndices is called with
    qcalls,           \* history: the buffer each openList call returned
    invertedLists,    \* what readInvertedIndices returned
    qpc               \* "loaded" | "opened" | "returned" | "returnedAgain" |
                      \* "query" | "read" |
                      \* "start" | "lexiconLoaded" |
                      \* "bigStart" | "bigLoaded" | "bigSearched" | "off"

codecVars   == <<cvals, cbytes, cdec, cerr, cpc>>
builderVars == <<linesRead, collection, invertedIndex, currentBlockSize,
                 blockCount, runFiles, runRecords, passage, tokens, bpc>>
mergerVars  == <<readers, minHeap, smallestTerm, mergedPostings, mergedFrom, indexFile,
                 currentOffset, lexicon, emitted, pageTable, mpc>>
readbackVars == <<rbNext, rbGood, rbLists, rbpc>>
queryVars   == <<qindex, qterm, qlist, qtarget, qres, qprev, qfiles, qquery, qcalls,
                 invertedLists, qpc>>
vars == <<codecVars, builderVars, mergerVars, readbackVars, queryVars>>

(***************************************************************************)
(* Generic helpers                                                         *)
(***************************************************************************)
Min(a, b) == IF a < b THEN a ELSE b

RECURSIVE Concat(_)
Concat(ss) == IF ss = <<>> THEN <<>> ELSE Head(ss) \o Concat(Tail(ss))

\* The sequences over S of length 0..n.
SeqsUpTo(S, n) == UNION {[1..k -> S] : k \in 0..n}

\* Lexicographic order on terms, as std::string::operator< orders them.
RECURSIVE StrLess(_, _)
StrLess(a, b) ==
    IF b = <<>> THEN FALSE
    ELSE IF a = <<>> THEN TRUE
    ELSE IF Head(a) # Head(b) THEN Head(a) < Head(b)
    ELSE StrLess(Tail(a), Tail(b))

\* The elements of a finite set of terms in ascending order.
RECURSIVE SortedTerms(_)
SortedTerms(S) ==
    IF S = {} THEN <<>>
    ELSE LET m == CHOOSE t \in S : \A u \in S \ {t} : StrLess(t, u)
         IN  <<m>> \o SortedTerms(S \ {m})

\* All orders in which the elements of a finite set can be enumerated.
RECURSIVE Permutations_(_)
Permutations_(S) ==
    IF S = {} THEN {<<>>}
    ELSE UNION {{<<e>> \o p : p \in Permutations_(S \ {e})} : e \in S}

(***************************************************************************)
(* Integers of the C++ code                                                *)
(***************************************************************************)
IntMax == 2147483647
IntMin == -2147483647 - 1

\* uint32_t -> int, the conversion at a call such as varbyteEncode(x).
ToInt(u) == IF u[1] >= 32768 THEN (u[1] - 65536) * 65536 + u[2]
                             ELSE u[1] * 65536 + u[2]

\* int -> uint32_t.
FromInt(v) == <<(v \div 65536) % 65536, v % 65536>>

\* A uint32_t written raw to a file (x86: little-endian), for values < 2^31.
U32Bytes(n) == <<n % 256, (n \div 256) % 256, (n \div 65536) % 256,
                 (n \div 16777216) % 256>>

(***************************************************************************)
(* Codec                                                                   *)
(***************************************************************************)
\* A slip in the loop condition: 128 itself is emitted as one byte.
RECURSIVE varbyteEncodeOffByOne(_)
varbyteEncodeOffByOne(number) ==
    IF number > 128
    THEN <<(number % 128) + 128>> \o varbyteEncodeOffByOne(number \div 128)
    ELSE <<number % 128>>

\* indexer.cpp varbyteEncode(int number); merger.cpp inlines the same loop.
\* number & 0x7F is number % 128 and number >>= 7 is number \div 128.
RECURSIVE varbyteEncode(_)
varbyteEncode(number) ==
    IF number >= 128
    THEN <<(number % 128) + 128>> \o varbyteEncode(number \div 128)
    ELSE <<number % 128>>

\* query.cpp byteToInt: the loop from byte i on, with the value and shift so
\* far.  The 7-bit groups do not overlap, so |= adds.
RECURSIVE byteToIntFrom(_, _, _, _)
byteToIntFrom(bytes, i, value, shift) ==
    IF i > Len(bytes) THEN value
    ELSE LET v == value + (bytes[i] % 128) * (2 ^ shift)
         IN  IF bytes[i] < 128 THEN v
             ELSE byteToIntFrom(bytes, i + 1, v, shift + 7)

byteToInt(bytes) == byteToIntFrom(bytes, 1, 0, 0)

\* query.cpp bytesToIntVec: the loop from byte i on, with the codeword
\* buffer and the numbers so far; a trailing unterminated buffer is converted
\* too.
RECURSIVE bytesToIntVecFrom(_, _, _, _)
bytesToIntVecFrom(bytes, i, buffer, numbers) ==
    IF i > Len(bytes)
    THEN IF buffer # <<>> THEN Append(numbers, byteToInt(buffer)) ELSE numbers
    ELSE LET buf == Append(buffer, bytes[i])
         IN  IF bytes[i] < 128
             THEN bytesToIntVecFrom(bytes, i + 1, <<>>, Append(numbers, byteToInt(buf)))
             ELSE bytesToIntVecFrom(bytes, i + 1, buf, numbers)

bytesToIntVec(bytes) == bytesToIntVecFrom(bytes, 1, <<>>, <<>>)

\* Final_bin_reverse.cpp / bin_reverse.cpp varbyteDecode(infile): reads from
\* position pos (1-based) of file; good is the stream state.  A failed read
\* ends the loop and the number so far is returned.
RECURSIVE varbyteDecodeFrom(_, _, _, _)
varbyteDecodeFrom(file, pos, number, shift) ==
    IF pos > Len(file) THEN [number |-> number, pos |-> pos, good |-> FALSE]
    ELSE LET n == number + (file[pos] % 128) * (2 ^ shift)
         IN  IF file[pos] < 128 THEN [number |-> n, pos |-> pos + 1, good |-> TRUE]
             ELSE varbyteDecodeFrom(file, pos + 1, n, shift + 7)

varbyteDecode(file, pos, good) ==
    IF ~good THEN [number |-> 0, pos |-> pos, good |-> FALSE]
    ELSE varbyteDecodeFrom(file, pos, 0, 0)

(***************************************************************************)
(* Bounds of the model                                                     *)
(***************************************************************************)
\* Input lines the Block Builder reads before end of file.
MaxLines == 2
\* Occurrences of one term in one passage.
MaxFreq == 1
\* parseCollection's parameter maxBlockSize (main passes 100 MiB), scaled so
\* that two postings fill a block.
maxBlockSize == 18

\* 'a' and 'b'.
Terms == {<<97>>, <<98>>}
\* Document ids; 200 needs a two-byte codeword.
DocIDs == {1, 200}
\* Values an uninitialised byte or word may hold.
Uninit == {0, 1}

(***************************************************************************)
(* Block Builder (indexer.cpp)                                             *)
(***************************************************************************)
\* An input line: without a TAB, or a docID and, per term, the number of
\* times tokenize() returned it for the passage (none, or MaxFreq times).
Lines ==
    {[hasTab |-> FALSE, docID |-> 0, counts |-> [t \in Terms |-> 0]]}
    \cup [hasTab : {TRUE}, docID : DocIDs, counts : [Terms -> {0, MaxFreq}]]

EmptyIndex == [t \in {} |-> <<>>]

\* The loop "for (const auto& [term, freq] : termFreqMap)" of parseCollection:
\* one posting appended per term of the document.
UpdateIndex(index, line) ==
    LET present == {t \in Terms : line.counts[t] > 0}
    IN  [t \in (DOMAIN index) \cup present |->
            IF t \in present
            THEN Append(IF t \in DOMAIN index THEN index[t] ELSE <<>>,
                        [docID |-> line.docID, termFreq |-> line.counts[t]])
            ELSE index[t]]

\* The size estimate added for one line: term.size() + sizeof(int) * 2 per posting.
RECURSIVE SizeOfTerms(_)
SizeOfTerms(S) ==
    IF S = {} THEN 0
    ELSE LET t == CHOOSE u \in S : TRUE
         IN  Len(t) + 8 + SizeOfTerms(S \ {t})

RECURSIVE EncodePostings(_)
EncodePostings(postings) ==
    IF postings = <<>> THEN <<>>
    ELSE varbyteEncode(Head(postings).docID) \o varbyteEncode(Head(postings).termFreq)
         \o EncodePostings(Tail(postings))

\* writeBinaryPostingFile: the map is iterated in `order`; per term the term
\* length, the term, the number of postings and the encoded postings.
RECURSIVE writeBinaryPostingFile(_, _)
writeBinaryPostingFile(order, index) ==
    IF order = <<>> THEN <<>>
    ELSE LET term == Head(order)
         IN  U32Bytes(Len(term)) \o term \o U32Bytes(Len(index[term]))
             \o EncodePostings(index[term])
             \o writeBinaryPostingFile(Tail(order), index)

\* invertedIndex is a std::unordered_map (indexer.cpp:187): the order in which
\* the range-for of writeBinaryPostingFile visits the terms is whatever the
\* hash table gives.
IterationOrders(index) == Permutations_(DOMAIN index)

RecordsOf(order, index) ==
    [i \in 1..Len(order) |-> [term |-> order[i], postings |-> index[order[i]]]]

\* One iteration of the getline loop of parseCollection.
ProcessLine ==
    /\ bpc = "reading"
    /\ linesRead < MaxLines
    /\ \E line \in Lines :
        /\ linesRead' = linesRead + 1
        /\ collection' = Append(collection, line)
        /\ IF ~line.hasTab
           THEN UNCHANGED <<invertedIndex, currentBlockSize, blockCount,
                            runFiles, runRecords>>
           ELSE LET index == UpdateIndex(invertedIndex, line)
                    size  == currentBlockSize
                             + SizeOfTerms({t \in Terms : line.counts[t] > 0})
                IN  IF size >= maxBlockSize
                    THEN \E order \in IterationOrders(index) :
                            /\ runFiles' = Append(runFiles,
                                                  writeBinaryPostingFile(order, index))
                            /\ runRecords' = Append(runRecords, RecordsOf(order, index))
                            /\ blockCount' = blockCount + 1
                            /\ invertedIndex' = EmptyIndex
                            /\ currentBlockSize' = 0
                    ELSE /\ invertedIndex' = index
                         /\ currentBlockSize' = size
                         /\ UNCHANGED <<blockCount, runFiles, runRecords>>
    /\ bpc' = "reading"
    /\ UNCHANGED <<passage, tokens>>
    /\ UNCHANGED <<codecVars, mergerVars, readbackVars, queryVars>>

\* getline fails at end of file: the remaining postings are written.
EndOfInput ==
    /\ bpc = "reading"
    /\ IF invertedIndex # EmptyIndex
       THEN \E order \in IterationOrders(invertedIndex) :
               /\ runFiles' = Append(runFiles,
                                     writeBinaryPostingFile(order, invertedIndex))
               /\ runRecords' = Append(runRecords, RecordsOf(order, invertedIndex))
               /\ blockCount' = blockCount + 1
       ELSE UNCHANGED <<runFiles, runRecords, blockCount>>
    /\ bpc' = "done"
    /\ UNCHANGED <<linesRead, collection, invertedIndex, currentBlockSize>>
    /\ UNCHANGED <<passage, tokens>>
    /\ UNCHANGED <<codecVars, mergerVars, readbackVars, queryVars>>

(***************************************************************************)
(* Merger (merger.cpp)                                                     *)
(***************************************************************************)
\* The value of a raw uint32_t read from a file (below 2^31 in this model).
U32Value(b) == b[1] + 256 * b[2] + 65536 * b[3] + 16777216 * b[4]

\* istream::read of n bytes at position pos (1-based): the bytes the file
\* still has, and whether all n were there.
StreamRead(file, pos, n) ==
    LET avail == IF Len(file) - pos + 1 < n
                 THEN (IF Len(file) - pos + 1 < 0 THEN 0 ELSE Len(file) - pos + 1)
                 ELSE n
    IN  [bytes |-> SubSeq(file, pos, pos + avail - 1), complete |-> avail = n]

\* A PostingFileReader before its constructor calls readNextTerm.
NewReader ==
    [pos |-> 1, good |-> TRUE, eof |-> FALSE, threw |-> FALSE,
     currentTerm |-> <<>>, currentPostings |-> <<>>]

\* One "while (true)" codeword loop of readNextTerm:
\*   docID = (docID << 7) | (byte & 0x7F)
\* ok is FALSE when a read hit the end of the file (the loop throws).
RECURSIVE ReadCodeword(_, _, _)
ReadCodeword(file, pos, value) ==
    IF pos > Len(file) THEN [value |-> value, pos |-> pos, ok |-> FALSE]
    ELSE LET v == value * 128 + (file[pos] % 128)
         IN  IF file[pos] < 128 THEN [value |-> v, pos |-> pos + 1, ok |-> TRUE]
             ELSE ReadCodeword(file, pos + 1, v)

\* The "for (i < numPostings)" loop of readNextTerm.
RECURSIVE ReadRunPostings(_, _, _, _)
ReadRunPostings(file, pos, n, acc) ==
    IF n = 0 THEN [postings |-> acc, pos |-> pos, ok |-> TRUE]
    ELSE LET d == ReadCodeword(file, pos, 0)
         IN  IF ~d.ok THEN [postings |-> acc, pos |-> d.pos, ok |-> FALSE]
             ELSE LET f == ReadCodeword(file, d.pos, 0)
                  IN  IF ~f.ok THEN [postings |-> acc, pos |-> f.pos, ok |-> FALSE]
                      ELSE ReadRunPostings(file, f.pos, n - 1,
                               Append(acc, [docID |-> d.value, termFreq |-> f.value]))

\* PostingFileReader::readNextTerm on reader r of `file`; u is what the
\* uninitialised numPostings holds when its read fails.
readNextTerm(r, file, u) ==
    IF ~r.good THEN [r EXCEPT !.eof = TRUE]
    ELSE
    LET tl == StreamRead(file, r.pos, 4)
    IN  IF ~tl.complete
        THEN [r EXCEPT !.eof = TRUE, !.good = FALSE, !.pos = Len(file) + 1]
        ELSE
        LET termLength == U32Value(tl.bytes)
            tr   == StreamRead(file, r.pos + 4, termLength)
            \* resize() keeps the old characters and zero-fills; read() then
            \* overwrites as many as the file still has.
            term == [i \in 1..termLength |->
                        IF i <= Len(tr.bytes) THEN tr.bytes[i]
                        ELSE IF i <= Len(r.currentTerm) THEN r.currentTerm[i]
                        ELSE 0]
            p2   == r.pos + 4 + Len(tr.bytes)
            np   == IF tr.complete THEN StreamRead(file, p2, 4)
                                   ELSE [bytes |-> <<>>, complete |-> FALSE]
            numPostings == IF np.complete THEN U32Value(np.bytes)
                           ELSE U32Value(np.bytes
                                         \o SubSeq(U32Bytes(u), Len(np.bytes) + 1, 4))
            p3   == p2 + Len(np.bytes)
            ps   == IF np.complete THEN ReadRunPostings(file, p3, numPostings, <<>>)
                    ELSE [postings |-> <<>>, pos |-> p3, ok |-> numPostings = 0]
        IN  [pos |-> ps.pos, good |-> np.complete /\ ps.ok, eof |-> FALSE,
             threw |-> ~ps.ok,
             currentTerm |-> term, currentPostings |-> ps.postings]

hasNext(r) == ~r.eof

\* The comparator turned round: the largest term is on top.
TopCandidatesMaxHeap(heap) ==
    {e \in heap : \A o \in heap : ~StrLess(e[1], o[1])}

\* The entries priority_queue::top() may return: ComparePQNode compares the
\* terms only, so among entries with the smallest term any may be on top.
TopCandidates(heap) ==
    {e \in heap : \A o \in heap : ~StrLess(o[1], e[1])}

\* Insertion of posting p into a sequence sorted by docID, after its equals.
RECURSIVE InsertByDocID(_, _)
InsertByDocID(p, sorted) ==
    IF sorted = <<>> THEN <<p>>
    ELSE IF p.docID < Head(sorted).docID THEN <<p>> \o sorted
    ELSE <<Head(sorted)>> \o InsertByDocID(p, Tail(sorted))

RECURSIVE SortFrom(_, _)
SortFrom(postings, acc) ==
    IF postings = <<>> THEN acc
    ELSE SortFrom(Tail(postings), InsertByDocID(Head(postings), acc))

\* The postings left in arrival order.
SortByDocIDSkipped(postings) == postings

\* std::sort(mergedPostings, by docID).  The order std::sort leaves among
\* equal docIDs is unspecified; here they keep their arrival order.
SortByDocID(postings) == SortFrom(postings, <<>>)

\* The uniquePostings loop: a posting whose docID equals the last one kept
\* adds its termFreq to it.
RECURSIVE Coalesce(_, _)
Coalesce(sorted, unique) ==
    IF sorted = <<>> THEN unique
    ELSE IF unique # <<>> /\ Head(sorted).docID = unique[Len(unique)].docID
    THEN Coalesce(Tail(sorted),
                  [unique EXCEPT ![Len(unique)].termFreq = @ + Head(sorted).termFreq])
    ELSE Coalesce(Tail(sorted), Append(unique, Head(sorted)))

UniquePostings(merged) == Coalesce(SortByDocID(merged), <<>>)

\* The main of merger.cpp up to the merge loop: the run files are listed in
\* sorted name order (runFiles is in that order), one reader is opened per
\* file, and the first term of each goes into the heap.  fileIdx is 1-based
\* here.  No run file at all ends the program with an error.
MergeOpen ==
    /\ bpc = "done"
    /\ mpc = "idle"
    /\ \E us \in [1..Len(runFiles) -> Uninit] :
        LET rs == [i \in 1..Len(runFiles) |-> readNextTerm(NewReader, runFiles[i], us[i])]
        IN  /\ readers' = rs
            /\ IF runFiles = <<>> \/ \E i \in 1..Len(rs) : rs[i].threw
               THEN /\ mpc' = "error"
                    /\ minHeap' = {}
               ELSE /\ mpc' = "loop"
                    /\ minHeap' = {<<rs[i].currentTerm, i>> :
                                     i \in {j \in 1..Len(rs) : hasNext(rs[j])}}
    /\ UNCHANGED <<smallestTerm, mergedPostings, mergedFrom, indexFile, currentOffset,
                   lexicon, emitted, pageTable>>
    /\ UNCHANGED <<codecVars, builderVars, readbackVars, queryVars>>

\* The pop without the push of the reader's next term.
AdvanceNoPush(e, u) ==
    LET r == readNextTerm(readers[e[2]], runFiles[e[2]], u)
    IN  /\ readers' = [readers EXCEPT ![e[2]] = r]
        /\ minHeap' = minHeap \ {e}
        /\ mpc' = IF r.threw THEN "error" ELSE "same"

\* What popping entry e does in either loop: the reader's postings are taken,
\* the reader advances, and its next term, if any, is pushed.
Advance(e, u) ==
    LET r == readNextTerm(readers[e[2]], runFiles[e[2]], u)
    IN  /\ readers' = [readers EXCEPT ![e[2]] = r]
        /\ minHeap' = (minHeap \ {e})
                      \cup (IF hasNext(r) /\ ~r.threw THEN {<<r.currentTerm, e[2]>>} ELSE {})
        /\ mpc' = IF r.threw THEN "error" ELSE "same"

\* The head of the "while (!minHeap.empty())" loop: pop the top entry.
PopSmallest ==
    /\ mpc = "loop"
    /\ minHeap # {}
    /\ \E e \in TopCandidates(minHeap), u \in Uninit :
        /\ smallestTerm' = e[1]
        /\ mergedPostings' = readers[e[2]].currentPostings
        /\ mergedFrom' = {<<e[2], readers[e[2]].pos>>}
        /\ Advance(e, u)
    /\ UNCHANGED <<indexFile, currentOffset, lexicon, emitted, pageTable>>
    /\ UNCHANGED <<codecVars, builderVars, readbackVars, queryVars>>

\* One iteration of the inner loop: the top entry has the same term.
PopSame ==
    /\ mpc = "same"
    /\ \E e \in TopCandidates(minHeap), u \in Uninit :
        /\ e[1] = smallestTerm
        /\ mergedPostings' = mergedPostings \o readers[e[2]].currentPostings
        /\ mergedFrom' = mergedFrom \cup {<<e[2], readers[e[2]].pos>>}
        /\ Advance(e, u)
    /\ UNCHANGED <<smallestTerm, indexFile, currentOffset, lexicon, emitted,
                   pageTable>>
    /\ UNCHANGED <<codecVars, builderVars, readbackVars, queryVars>>

\* The rest of the loop body once the inner loop has ended: sort, coalesce,
\* write the list to index.bin and append the lexicon entry.  The 4-byte
\* numPostings is written to the file; currentOffset advances by the
\* codewords only.
WriteTerm ==
    /\ mpc = "same"
    /\ \A e \in TopCandidates(minHeap) : e[1] # smallestTerm
    /\ LET uniquePostings == UniquePostings(mergedPostings)
           body == EncodePostings(uniquePostings)
       IN  /\ indexFile' = indexFile \o U32Bytes(Len(uniquePostings)) \o body
           /\ currentOffset' = currentOffset + Len(body)
           /\ lexicon' = Append(lexicon,
                  [term |-> smallestTerm, offset |-> currentOffset,
                   length |-> (currentOffset + Len(body)) - currentOffset,
                   docFreq |-> Len(uniquePostings)])
           /\ emitted' = Append(emitted,
                  [term |-> smallestTerm, postings |-> uniquePostings,
                   start |-> Len(indexFile), bytes |-> 4 + Len(body),
                   from |-> mergedFrom])
    /\ mpc' = "loop"
    /\ UNCHANGED <<readers, minHeap, smallestTerm, mergedPostings, mergedFrom,
                   pageTable>>
    /\ UNCHANGED <<codecVars, builderVars, readbackVars, queryVars>>

\* A page table with an entry for every line read, TAB or not.
buildPageTableKeepAll(lines) == [i \in 1..Len(lines) |-> lines[i].docID]

\* buildPageTable: the collection is read once more; a line without a TAB
\* is skipped, any other line adds an entry with its docID (the entry's
\* metadata, the passage, is not modelled).
RECURSIVE buildPageTable(_)
buildPageTable(lines) ==
    IF lines = <<>> THEN <<>>
    ELSE (IF Head(lines).hasTab THEN <<Head(lines).docID>> ELSE <<>>)
         \o buildPageTable(Tail(lines))

\* The loop ends with the heap empty; index.bin is closed.  main then writes
\* the lexicon and builds the page table from the collection.
MergeDone ==
    /\ mpc = "loop"
    /\ minHeap = {}
    /\ pageTable' = buildPageTable(collection)
    /\ mpc' = "done"
    /\ UNCHANGED <<readers, minHeap, smallestTerm, mergedPostings, mergedFrom,
                   indexFile, currentOffset, lexicon, emitted>>
    /\ UNCHANGED <<codecVars, builderVars, readbackVars, queryVars>>

(***************************************************************************)
(* Read-back of index.bin (Final_bin_reverse.cpp)                          *)
(***************************************************************************)
U64Bytes(n) == U32Bytes(n) \o <<0, 0, 0, 0>>

\* merger.cpp writeLexicon: term length, term, offset, length, docFreq, raw.
RECURSIVE writeLexicon(_)
writeLexicon(lex) ==
    IF lex = <<>> THEN <<>>
    ELSE LET e == Head(lex)
         IN  U32Bytes(Len(e.term)) \o e.term \o U64Bytes(e.offset)
             \o U32Bytes(e.length) \o U32Bytes(e.docFreq)
             \o writeLexicon(Tail(lex))

\* Final_bin_reverse.cpp readLexicon: the loop "while (peek() != EOF)" from
\* position pos on.
RECURSIVE readLexiconFrom(_, _, _)
readLexiconFrom(file, pos, acc) ==
    IF pos > Len(file) THEN acc
    ELSE LET tl == StreamRead(file, pos, 4)
         IN  IF ~tl.complete THEN acc
             ELSE LET n  == U32Value(tl.bytes)
                      t  == StreamRead(file, pos + 4, n)
                      o  == StreamRead(file, pos + 4 + n, 8)
                      l  == StreamRead(file, pos + 12 + n, 4)
                      d  == StreamRead(file, pos + 16 + n, 4)
                  IN  IF ~(t.complete /\ o.complete /\ l.complete /\ d.complete)
                      THEN acc
                      ELSE readLexiconFrom(file, pos + 20 + n,
                               Append(acc, [term |-> t.bytes,
                                            offset |-> U32Value(SubSeq(o.bytes, 1, 4)),
                                            length |-> U32Value(l.bytes),
                                            docFreq |-> U32Value(d.bytes)]))

readLexicon(file) == readLexiconFrom(file, 1, <<>>)

\* The longest list a read-back is compared with has one posting per line.
ReadCap == MaxLines + 1

\* How many loop iterations of readPostings are kept: numPostings (as its
\* four bytes) capped at ReadCap.
KeptCount(n4) ==
    IF n4[2] + n4[3] + n4[4] > 0 THEN ReadCap ELSE Min(n4[1], ReadCap)

\* The loop of readPostings: n postings decoded from pos on.
RECURSIVE ReadIndexPostings(_, _, _, _, _)
ReadIndexPostings(file, pos, good, n, acc) ==
    IF n = 0 THEN [postings |-> acc, pos |-> pos, good |-> good]
    ELSE LET d == varbyteDecode(file, pos, good)
             f == varbyteDecode(file, d.pos, d.good)
         IN  ReadIndexPostings(file, f.pos, f.good, n - 1,
                 Append(acc, [docID |-> d.number, termFreq |-> f.number]))

\* Final_bin_reverse.cpp readPostings(indexFile, offset, length): seek, read the
\* 4-byte numPostings, decode that many postings.  offset is 0-based.  g is
\* what the bytes of numPostings that the file did not supply hold.  The
\* result keeps numPostings as its bytes and the first ReadCap postings.
readPostings(file, offset, good, g) ==
    IF ~good
    THEN [threw |-> TRUE, numPostings |-> <<>>, postings |-> <<>>, good |-> FALSE]
    ELSE LET np == StreamRead(file, offset + 1, 4)
             n4 == np.bytes \o [i \in 1..(4 - Len(np.bytes)) |-> g]
             r  == ReadIndexPostings(file, offset + 1 + Len(np.bytes), np.complete,
                                     KeptCount(n4), <<>>)
         IN  [threw |-> FALSE, numPostings |-> n4, postings |-> r.postings,
              good |-> r.good]

\* main of Final_bin_reverse.cpp: the lexicon file is read and index.bin opened.
ReadBackOpen ==
    /\ mpc = "done"
    /\ rbpc = "idle"
    /\ rbpc' = "reading"
    /\ rbNext' = 1
    /\ rbGood' = TRUE
    /\ rbLists' = <<>>
    /\ UNCHANGED <<codecVars, builderVars, mergerVars, queryVars>>

\* One iteration of "for (const auto& entry : lexicon)".
ReadBackEntry ==
    /\ rbpc = "reading"
    /\ LET lex == readLexicon(writeLexicon(lexicon))
       IN  /\ rbNext <= Len(lex)
           /\ \E g \in Uninit :
               LET r == readPostings(indexFile, lex[rbNext].offset, rbGood, g)
               IN  IF r.threw
                   THEN /\ rbpc' = "error"
                        /\ UNCHANGED <<rbNext, rbGood, rbLists>>
                   ELSE /\ rbpc' = "reading"
                        /\ rbNext' = rbNext + 1
                        /\ rbGood' = r.good
                        /\ rbLists' = Append(rbLists,
                               [term |-> lex[rbNext].term,
                                numPostings |-> r.numPostings,
                                postings |-> r.postings])
    /\ UNCHANGED <<codecVars, builderVars, mergerVars, queryVars>>

\* The loop has visited every lexicon entry.
ReadBackDone ==
    /\ rbpc = "reading"
    /\ rbNext > Len(readLexicon(writeLexicon(lexicon)))
    /\ rbpc' = "done"
    /\ UNCHANGED <<rbNext, rbGood, rbLists>>
    /\ UNCHANGED <<codecVars, builderVars, mergerVars, queryVars>>

(***************************************************************************)
(* The pipeline: build, merge, read back                                   *)
(***************************************************************************)
CodecOff ==
    /\ cvals = <<>> /\ cbytes = <<>> /\ cdec = <<>> /\ cerr = "none" /\ cpc = "off"

QueryOff ==
    /\ qindex = <<>> /\ qterm = <<>> /\ qlist = <<>> /\ qtarget = 0
    /\ qres = <<>> /\ qprev = <<>> /\ qpc = "off"
    /\ qquery = <<>> /\ qcalls = <<>> /\ invertedLists = <<>> /\ qfiles = <<>>

BuilderStart ==
    /\ linesRead = 0 /\ collection = <<>>
    /\ invertedIndex = EmptyIndex /\ currentBlockSize = 0
    /\ blockCount = 0 /\ runFiles = <<>> /\ runRecords = <<>>
    /\ passage = <<>> /\ tokens = <<>>

MergerStart ==
    /\ readers = <<>> /\ minHeap = {} /\ smallestTerm = <<>>
    /\ mergedPostings = <<>> /\ mergedFrom = {} /\ indexFile = <<>>
    /\ currentOffset = 0
    /\ lexicon = <<>> /\ emitted = <<>> /\ pageTable = <<>>

ReadBackStart ==
    /\ rbNext = 1 /\ rbGood = TRUE /\ rbLists = <<>>

Init ==
    /\ CodecOff /\ QueryOff
    /\ BuilderStart /\ bpc = "reading"
    /\ MergerStart /\ mpc = "idle"
    /\ ReadBackStart /\ rbpc = "idle"

Next ==
    \/ ProcessLine
    \/ EndOfInput
    \/ MergeOpen
    \/ PopSmallest
    \/ PopSame
    \/ WriteTerm
    \/ MergeDone
    \/ ReadBackOpen
    \/ ReadBackEntry
    \/ ReadBackDone

Spec == Init /\ [][Next]_vars

(***************************************************************************)
(* Properties of the pipeline                                              *)
(***************************************************************************)
\* The records a PostingFileReader yields for a run file, first to last.
RECURSIVE ReadAllFrom(_, _, _)
ReadAllFrom(r, file, acc) ==
    LET n == readNextTerm(r, file, 0)
    IN  IF n.eof \/ n.threw THEN acc
        ELSE ReadAllFrom(n, file,
                 Append(acc, [term |-> n.currentTerm, postings |-> n.currentPostings]))

AsRead(k) == ReadAllFrom(NewReader, runFiles[k], <<>>)

TermsAscending(recs) ==
    \A i, j \in 1..Len(recs) : i < j => StrLess(recs[i].term, recs[j].term)

RunsSorted == \A k \in 1..Len(runFiles) : TermsAscending(AsRead(k))

TermsOfRuns ==
    UNION {{AsRead(k)[i].term : i \in 1..Len(AsRead(k))} : k \in 1..Len(runFiles)}

\* Every posting the readers yield for term t, run after run.
RECURSIVE PostingsOfTermFrom(_, _)
PostingsOfTermFrom(t, k) ==
    IF k > Len(runFiles) THEN <<>>
    ELSE LET recs == AsRead(k)
         IN  Concat([i \in 1..Len(recs) |->
                        IF recs[i].term = t THEN recs[i].postings ELSE <<>>])
             \o PostingsOfTermFrom(t, k + 1)

PostingsOfTerm(t) == PostingsOfTermFrom(t, 1)

DocSet(ps) == {ps[i].docID : i \in 1..Len(ps)}

RECURSIVE SumFreq(_, _)
SumFreq(ps, d) ==
    IF ps = <<>> THEN 0
    ELSE (IF Head(ps).docID = d THEN Head(ps).termFreq ELSE 0) + SumFreq(Tail(ps), d)

StrictlyAscending(ps) ==
    \A i, j \in 1..Len(ps) : i < j => ps[i].docID < ps[j].docID

\* List ps is the union of the runs' postings for term t, frequencies summed.
IsUnionOfRuns(ps, t) ==
    /\ DocSet(ps) = DocSet(PostingsOfTerm(t))
    /\ \A i \in 1..Len(ps) : ps[i].termFreq = SumFreq(PostingsOfTerm(t), ps[i].docID)

EntriesOf(t) == {i \in 1..Len(emitted) : emitted[i].term = t}

\* C3 (as claimed): every list written to index.bin reads back, through its
\* lexicon entry, as the (docID, termFreq) sequence that was written; the
\* read-back never fails.
C3_ReadBackEqualsWritten ==
    /\ rbpc # "error"
    /\ \A i \in 1..Len(rbLists) :
        /\ rbLists[i].term = emitted[i].term
        /\ rbLists[i].numPostings = U32Bytes(Len(emitted[i].postings))
        /\ rbLists[i].postings = emitted[i].postings

\* C4 (as claimed): after the merge, every term of any run has a final list
\* whose docIDs are the union of its docIDs over the runs, each with the sum
\* of its frequencies.
C4_UnionAndSum ==
    mpc = "done" =>
        \A t \in TermsOfRuns :
            /\ EntriesOf(t) # {}
            /\ \A i \in EntriesOf(t) : IsUnionOfRuns(emitted[i].postings, t)

\* C5: every list the Merger emits is strictly ascending in docID (so no
\* docID repeats) and the lexicon's docFreq is its number of postings.
C5_AscendingAndDocFreq ==
    /\ Len(lexicon) = Len(emitted)
    /\ \A i \in 1..Len(emitted) :
        /\ StrictlyAscending(emitted[i].postings)
        /\ lexicon[i].term = emitted[i].term
        /\ lexicon[i].docFreq = Len(emitted[i].postings)

\* C5 witness: a finished merge that emitted a list of two postings which
\* the readers delivered in descending docID order.
C5_Witness ==
    /\ mpc = "done"
    /\ \E i \in 1..Len(emitted) :
        LET arrived == PostingsOfTerm(emitted[i].term)
        IN  /\ Len(emitted[i].postings) = 2
            /\ Len(arrived) = 2
            /\ arrived[1].docID > arrived[2].docID

\* C6 (as claimed): each lexicon entry's offset is the file position at which
\* the term's data starts, its length the number of bytes written for the
\* term, and the last entry ends at the end of index.bin.
C6_OffsetAndLength ==
    /\ \A i \in 1..Len(lexicon) :
        /\ lexicon[i].offset = emitted[i].start
        /\ lexicon[i].length = emitted[i].bytes
    /\ (mpc = "done" /\ lexicon # <<>>) =>
        lexicon[Len(lexicon)].offset + lexicon[Len(lexicon)].length = Len(indexFile)

\* C8 (as claimed): every run file lists its terms in strictly ascending order.
C8_RunsTermOrdered ==
    \A k \in 1..Len(runRecords) : TermsAscending(runRecords[k])

\* C9: when every run is in ascending term order, the finished merge has one
\* lexicon entry per distinct term, in ascending term order, and each entry's
\* list is the union of that term's postings over all runs.
C9_OneEntryPerTerm ==
    (mpc = "done" /\ RunsSorted) =>
        /\ [i \in 1..Len(lexicon) |-> lexicon[i].term] = SortedTerms(TermsOfRuns)
        /\ \A i \in 1..Len(emitted) :
            /\ StrictlyAscending(emitted[i].postings)
            /\ IsUnionOfRuns(emitted[i].postings, emitted[i].term)
            /\ lexicon[i].docFreq = Cardinality(DocSet(PostingsOfTerm(emitted[i].term)))

\* C9 witness: a finished merge of two sorted runs that share a term, the
\* second run holding a further term.
C9_Witness ==
    /\ mpc = "done"
    /\ RunsSorted
    /\ Len(runFiles) = 2
    /\ Len(lexicon) = 2
    /\ \E t \in TermsOfRuns :
        /\ \A k \in 1..2 : \E i \in 1..Len(AsRead(k)) : AsRead(k)[i].term = t
        /\ \E i \in EntriesOf(t) : Len(emitted[i].postings) = 2

\* The lines of the collection that have a TAB.
TabLines == SelectSeq(collection, LAMBDA l : l.hasTab)

\* C13: a line without a TAB is skipped without error.  The step that reads
\* it leaves the accumulator, the size estimate, the run counter and the run
\* files as they were and the Block Builder goes on reading; the page table
\* built from the collection has the entries of the other lines only.
C13_NoTabLineSkipped ==
    /\ [][(linesRead' = linesRead + 1 /\ ~collection'[Len(collection')].hasTab)
            => /\ UNCHANGED <<invertedIndex, currentBlockSize, blockCount, runFiles>>
               /\ bpc' = "reading"]_vars
    /\ [](mpc = "done" =>
            pageTable = [i \in 1..Len(TabLines) |-> TabLines[i].docID])

\* C13 witness: a line without a TAB was read first and a line with a term
\* after it; the merge is finished and the page table has the one entry.
C13_Witness ==
    /\ mpc = "done"
    /\ Len(collection) = 2
    /\ ~collection[1].hasTab /\ collection[2].hasTab
    /\ pageTable = <<collection[2].docID>>
    /\ Len(lexicon) > 0

\* The merge of the run files with one fixed pop order: among the entries
\* that may be on top, always the one of the lowest file index.
LowestIndex(es) == CHOOSE x \in es : \A y \in es : x[2] <= y[2]

RECURSIVE RefCollect(_, _, _, _)
RefCollect(rs, heap, term, merged) ==
    LET tops == {e \in TopCandidates(heap) : e[1] = term}
    IN  IF tops = {} THEN [rs |-> rs, heap |-> heap, merged |-> merged]
        ELSE LET e == LowestIndex(tops)
                 r == readNextTerm(rs[e[2]], runFiles[e[2]], 0)
             IN  RefCollect([rs EXCEPT ![e[2]] = r],
                            (heap \ {e})
                            \cup (IF hasNext(r) THEN {<<r.currentTerm, e[2]>>} ELSE {}),
                            term, merged \o rs[e[2]].currentPostings)

RECURSIVE RefMergeFrom(_, _, _, _, _)
RefMergeFrom(rs, heap, file, offset, lex) ==
    IF heap = {} THEN [indexFile |-> file, lexicon |-> lex]
    ELSE LET term == LowestIndex(TopCandidates(heap))[1]
             c    == RefCollect(rs, heap, term, <<>>)
             u    == UniquePostings(c.merged)
             body == EncodePostings(u)
         IN  RefMergeFrom(c.rs, c.heap, file \o U32Bytes(Len(u)) \o body,
                          offset + Len(body),
                          Append(lex, [term |-> term, offset |-> offset,
                                       length |-> Len(body), docFreq |-> Len(u)]))

RefMerge ==
    LET rs == [i \in 1..Len(runFiles) |-> readNextTerm(NewReader, runFiles[i], 0)]
    IN  RefMergeFrom(rs, {<<rs[i].currentTerm, i>> :
                            i \in {j \in 1..Len(rs) : hasNext(rs[j])}},
                     <<>>, 0, <<>>)

\* C10 (as claimed): the bytes of index.bin and the lexicon of a finished
\* merge are those of the merge with the fixed pop order, whatever order the
\* heap released readers of equal terms in.
C10_OutputIndependentOfPopOrder ==
    mpc = "done" =>
        /\ indexFile = RefMerge.indexFile
        /\ lexicon = RefMerge.lexicon

(***************************************************************************)
(* SpecCodec: varbyteEncode and the reader-side decoders                   *)
(***************************************************************************)
\* How far around each codeword-length boundary the inputs reach.
CodecDelta == 1
\* How many integers are encoded back to back.
MaxVals == 2

\* Inputs below 2^31: around 2^0, 2^7, 2^14, 2^21, 2^28 and up to 2^31 - 1.
LowSamples ==
    {v \in {2 ^ (7 * k) + d : k \in 0..4, d \in (0 - CodecDelta)..CodecDelta} : v >= 0}
    \cup {IntMax - d : d \in 0..CodecDelta}

\* Inputs in 2^31 .. 2^32 - 1, as <<hi, lo>>.
HighSamples ==
    {<<32768, d>> : d \in 0..CodecDelta}
    \cup {<<32768, 128 + d>> : d \in 0..CodecDelta}
    \cup {<<65535, 65535 - d>> : d \in 0..CodecDelta}

Samples == {FromInt(v) : v \in LowSamples} \cup HighSamples

PipelineOff ==
    /\ BuilderStart /\ bpc = "off"
    /\ MergerStart /\ mpc = "off"
    /\ ReadBackStart /\ rbpc = "off"

InitCodec ==
    /\ cvals \in SeqsUpTo(Samples, MaxVals)
    /\ cbytes = <<>> /\ cdec = <<>> /\ cerr = "none" /\ cpc = "input"
    /\ PipelineOff /\ QueryOff

\* Each input is converted to int and encoded; the codewords are concatenated.
Encode ==
    /\ cpc = "input"
    /\ cbytes' = Concat([i \in 1..Len(cvals) |-> varbyteEncode(ToInt(cvals[i]))])
    /\ cpc' = "encoded"
    /\ UNCHANGED <<cvals, cdec, cerr>>
    /\ UNCHANGED <<builderVars, mergerVars, readbackVars, queryVars>>

\* The encoded input loses its end: it now stops inside its last codeword,
\* after a byte with the high bit set.
Truncate ==
    /\ cpc = "encoded"
    /\ \E k \in 1..(Len(cbytes) - 1) :
          /\ \A j \in k..(Len(cbytes) - 1) : cbytes[j] >= 128
          /\ cbytes' = SubSeq(cbytes, 1, k)
    /\ cpc' = "truncated"
    /\ UNCHANGED <<cvals, cdec, cerr>>
    /\ UNCHANGED <<builderVars, mergerVars, readbackVars, queryVars>>

\* query.cpp decodes a whole buffer at once.  bytesToIntVec has no throw
\* statement: it returns whatever the input.
DecodeVec ==
    /\ cpc \in {"encoded", "truncated"}
    /\ cdec' = bytesToIntVec(cbytes)
    /\ cerr' = "none"
    /\ cpc' = IF cpc = "encoded" THEN "decodedVec" ELSE "truncDecodedVec"
    /\ UNCHANGED <<cvals, cbytes>>
    /\ UNCHANGED <<builderVars, mergerVars, readbackVars, queryVars>>

\* n calls of the stream decoder, as the loops of the two dump tools make them.
RECURSIVE DecodeCalls(_, _, _, _, _)
DecodeCalls(file, pos, good, n, acc) ==
    IF n = 0 THEN acc
    ELSE LET d == varbyteDecode(file, pos, good)
         IN  DecodeCalls(file, d.pos, d.good, n - 1, Append(acc, d.number))

\* varbyteDecode has no throw statement either: when a read fails its loop
\* ends and the number so far is returned.
DecodeStream ==
    /\ cpc \in {"encoded", "truncated"}
    /\ cdec' = DecodeCalls(cbytes, 1, TRUE, Len(cvals), <<>>)
    /\ cerr' = "none"
    /\ cpc' = IF cpc = "encoded" THEN "decodedStream" ELSE "truncDecodedStream"
    /\ UNCHANGED <<cvals, cbytes>>
    /\ UNCHANGED <<builderVars, mergerVars, readbackVars, queryVars>>

NextCodec == Encode \/ Truncate \/ DecodeVec \/ DecodeStream

SpecCodec == InitCodec /\ [][NextCodec]_vars

(***************************************************************************)
(* The Merger on run files that end early (merger.cpp)                     *)
(***************************************************************************)
\* Accumulators a run file is written from: "a" alone, "b" alone, "a" and
\* "b" with a two-byte docID codeword.
RunIndexes ==
    {[t \in {<<97>>} |-> <<[docID |-> 1, termFreq |-> 1]>>],
     [t \in {<<98>>} |-> <<[docID |-> 1, termFreq |-> 1]>>],
     [t \in Terms |-> IF t = <<97>>
                      THEN <<[docID |-> 1, termFreq |-> 1], [docID |-> 200, termFreq |-> 1]>>
                      ELSE <<[docID |-> 200, termFreq |-> 1]>>]}

\* Two run files as the Block Builder wrote them, one of them holding only
\* its first c bytes (all of them when c is its length).
InitTruncated ==
    /\ \E i1 \in RunIndexes, i2 \in RunIndexes :
       \E o1 \in IterationOrders(i1), o2 \in IterationOrders(i2), which \in 1..2 :
         LET files == <<writeBinaryPostingFile(o1, i1), writeBinaryPostingFile(o2, i2)>>
         IN  \E c \in 0..Len(files[which]) :
               /\ runRecords = <<RecordsOf(o1, i1), RecordsOf(o2, i2)>>
               /\ runFiles = [files EXCEPT ![which] = SubSeq(@, 1, c)]
    /\ linesRead = 0 /\ collection = <<>>
    /\ invertedIndex = EmptyIndex /\ currentBlockSize = 0
    /\ blockCount = 2
    /\ passage = <<>> /\ tokens = <<>>
    /\ bpc = "done"
    /\ MergerStart /\ mpc = "idle"
    /\ ReadBackStart /\ rbpc = "off"
    /\ CodecOff /\ QueryOff

NextTruncated ==
    \/ MergeOpen
    \/ PopSmallest
    \/ PopSame
    \/ WriteTerm
    \/ MergeDone

SpecTruncated == InitTruncated /\ [][NextTruncated]_vars

(***************************************************************************)
(* The tokenizer (indexer.cpp, tokenize)                                   *)
(***************************************************************************)
MaxText == 5

\* The bytes of the passages: `t`, `O`, a space and 0xC3, the first byte of
\* the UTF-8 encoding of an accented letter.
TextBytes == {116, 79, 32, 195}

\* The stop words of main that can be written with TextBytes: "to".
stopWords == {<<116, 111>>}

\* std::isalnum and std::tolower in the "C" locale the program runs in.
isalnum(c) == c \in 48..57 \/ c \in 65..90 \/ c \in 97..122

tolower(c) == IF c \in 65..90 THEN c + 32 ELSE c

isASCII(token) == \A k \in 1..Len(token) : token[k] <= 127

\* The loop of tokenize over the bytes of the text, `token` being the token
\* under construction and `toks` the tokens pushed so far, and the push of
\* the token left at the end.
RECURSIVE tokenizeFrom(_, _, _, _)
tokenizeFrom(text, stops, token, toks) ==
    IF text = <<>>
    THEN IF token # <<>> /\ isASCII(token) /\ token \notin stops
         THEN Append(toks, token) ELSE toks
    ELSE IF isalnum(Head(text))
         THEN tokenizeFrom(Tail(text), stops, Append(token, tolower(Head(text))), toks)
         ELSE IF token # <<>>
              THEN tokenizeFrom(Tail(text), stops, <<>>,
                       IF isASCII(token) /\ token \notin stops
                       THEN Append(toks, token) ELSE toks)
              ELSE tokenizeFrom(Tail(text), stops, token, toks)

tokenize(text, stops) == tokenizeFrom(text, stops, <<>>, <<>>)

InitTokenize ==
    /\ passage \in SeqsUpTo(TextBytes, MaxText)
    /\ tokens = <<>>
    /\ linesRead = 0 /\ collection = <<>>
    /\ invertedIndex = EmptyIndex /\ currentBlockSize = 0
    /\ blockCount = 0 /\ runFiles = <<>> /\ runRecords = <<>>
    /\ bpc = "tokenizing"
    /\ MergerStart /\ mpc = "off"
    /\ ReadBackStart /\ rbpc = "off"
    /\ CodecOff /\ QueryOff

Tokenize ==
    /\ bpc = "tokenizing"
    /\ tokens' = tokenize(passage, stopWords)
    /\ bpc' = "tokenized"
    /\ UNCHANGED <<linesRead, collection, invertedIndex, currentBlockSize,
                   blockCount, runFiles, runRecords, passage>>
    /\ UNCHANGED <<codecVars, mergerVars, readbackVars, queryVars>>

NextTokenize == Tokenize

SpecTokenize == InitTokenize /\ [][NextTokenize]_vars

Decoded == cpc \in {"decodedVec", "decodedStream"}

\* The value of a little-endian base-128 codeword.
RECURSIVE GroupsValue(_)
GroupsValue(w) ==
    IF w = <<>> THEN 0 ELSE (Head(w) % 128) + 128 * GroupsValue(Tail(w))

Terminators(bytes) == Cardinality({j \in 1..Len(bytes) : bytes[j] < 128})

\* C12 (as claimed): a decoder whose input ends before a byte with the high
\* bit clear fails with TruncatedCodeword, and returns no value built from
\* the unterminated codeword.
C12_TruncatedCodewordFails ==
    cpc \in {"truncDecodedVec", "truncDecodedStream"} =>
        /\ cerr = "TruncatedCodeword"
        /\ Len(cdec) <= Terminators(cbytes)

(***************************************************************************)
(* The blocked index (written by a Merger variant that is not among the    *)
(* sources; modelled from the specification, section 4.4 steps 4 and 5)    *)
(***************************************************************************)
\* Postings per block: 64 in the specification, scaled down here.
POSTINGS_PER_BLOCK == 4

\* The d-gaps of a block whose predecessor ended at docID prev.
RECURSIVE EncodeGaps(_, _)
EncodeGaps(postings, prev) ==
    IF postings = <<>> THEN <<>>
    ELSE varbyteEncode(Head(postings).docID - prev)
         \o EncodeGaps(Tail(postings), Head(postings).docID)

RECURSIVE EncodeFreqs(_)
EncodeFreqs(postings) ==
    IF postings = <<>> THEN <<>>
    ELSE varbyteEncode(Head(postings).termFreq) \o EncodeFreqs(Tail(postings))

\* The blocks of posting list P from posting `from` on: per block its bytes
\* (all gaps, then all frequencies) and its lastDocID.
RECURSIVE BlocksOf(_, _, _)
BlocksOf(P, from, prev) ==
    IF from > Len(P) THEN <<>>
    ELSE LET to    == Min(from + POSTINGS_PER_BLOCK - 1, Len(P))
             block == SubSeq(P, from, to)
         IN  <<[bytes |-> EncodeGaps(block, prev) \o EncodeFreqs(block),
                lastDocID |-> P[to].docID]>>
             \o BlocksOf(P, to + 1, P[to].docID)

\* index.bin, lexicon.txt and blockMetaData.txt for the term lists `lists`
\* (records [term, postings], in ascending term order), appended to what the
\* earlier terms produced.
RECURSIVE BuildBlockedIndex(_, _)
BuildBlockedIndex(lists, sofar) ==
    IF lists = <<>> THEN sofar
    ELSE LET l      == Head(lists)
             blocks == BlocksOf(l.postings, 1, 0)
             bytes  == Concat([i \in 1..Len(blocks) |-> blocks[i].bytes])
         IN  BuildBlockedIndex(Tail(lists),
                 [index |-> sofar.index \o bytes,
                  lexicon |-> Append(sofar.lexicon,
                                 [term |-> l.term, offset |-> Len(sofar.index),
                                  length |-> Len(bytes), docFreq |-> Len(l.postings)]),
                  meta |-> sofar.meta
                           \o [i \in 1..Len(blocks) |->
                                  [length |-> Len(blocks[i].bytes),
                                   lastDocID |-> blocks[i].lastDocID]]])

EmptyBlockedIndex == [index |-> <<>>, lexicon |-> <<>>, meta |-> <<>>]

\* The decimal digits of n as text.
RECURSIVE ToDecimal(_)
ToDecimal(n) ==
    IF n < 10 THEN <<48 + n>> ELSE Append(ToDecimal(n \div 10), 48 + (n % 10))

\* lexicon.txt and blockMetaData.txt as text: one line per entry, each line
\* the sequence of its whitespace-separated tokens.
LexiconText(entries) ==
    [i \in 1..Len(entries) |->
        <<entries[i].term, ToDecimal(entries[i].offset),
          ToDecimal(entries[i].length), ToDecimal(entries[i].docFreq)>>]

BlockMetaDataText(entries) ==
    [i \in 1..Len(entries) |->
        <<ToDecimal(entries[i].length), ToDecimal(entries[i].lastDocID)>>]

(***************************************************************************)
(* List reader (query.cpp)                                                 *)
(***************************************************************************)
\* The number of decimal digits a token starts with.
RECURSIVE DigitPrefixLen(_)
DigitPrefixLen(token) ==
    IF token = <<>> \/ Head(token) < 48 \/ Head(token) > 57 THEN 0
    ELSE 1 + DigitPrefixLen(Tail(token))

RECURSIVE FromDecimal(_, _)
FromDecimal(digits, acc) ==
    IF digits = <<>> THEN acc
    ELSE FromDecimal(Tail(digits), 10 * acc + (Head(digits) - 48))

\* iss >> n for a number: the digits the next token starts with are
\* converted and what follows them in the token stays in the stream; no token
\* or no digit fails the stream.
ReadNumber(toks) ==
    IF toks = <<>> \/ DigitPrefixLen(Head(toks)) = 0
    THEN [ok |-> FALSE, val |-> 0, rest |-> <<>>]
    ELSE LET k == DigitPrefixLen(Head(toks))
         IN  [ok |-> TRUE, val |-> FromDecimal(SubSeq(Head(toks), 1, k), 0),
              rest |-> IF k < Len(Head(toks))
                       THEN <<SubSeq(Head(toks), k + 1, Len(Head(toks)))>>
                                \o Tail(toks)
                       ELSE Tail(toks)]

\* iss >> term >> offset >> length >> docFreq on one line of lexicon.txt.
ParseLexiconLine(line) ==
    LET o == ReadNumber(IF line = <<>> THEN <<>> ELSE Tail(line))
        l == ReadNumber(o.rest)
        d == ReadNumber(l.rest)
    IN  [ok |-> line # <<>> /\ o.ok /\ l.ok /\ d.ok,
         term |-> IF line = <<>> THEN <<>> ELSE Head(line),
         offset |-> o.val, length |-> l.val, docFreq |-> d.val]

\* iss >> length >> lastDocID on one line of blockMetaData.txt.
ParseBlockMetaDataLine(line) ==
    LET l == ReadNumber(line)
        d == ReadNumber(l.rest)
    IN  [ok |-> l.ok /\ d.ok, length |-> l.val, lastDocID |-> d.val]

\* The lines the loaders take in: a line that does not parse is reported on
\* cerr and the loop goes on with the next line.
LexiconLinesLoaded(text) ==
    SelectSeq([i \in 1..Len(text) |-> ParseLexiconLine(text[i])], LAMBDA e : e.ok)

BlockMetaDataLinesLoaded(text) ==
    SelectSeq([i \in 1..Len(text) |-> ParseBlockMetaDataLine(text[i])],
              LAMBDA e : e.ok)

\* loadLexicon: the map term -> {offset, length, docFreq} of the lexicon lines.
loadLexicon(lines) ==
    [t \in {lines[i].term : i \in 1..Len(lines)} |->
        LET i == CHOOSE j \in 1..Len(lines) :
                    lines[j].term = t /\ \A k \in (j + 1)..Len(lines) : lines[k].term # t
        IN  [offset |-> lines[i].offset, length |-> lines[i].length,
             docFreq |-> lines[i].docFreq]]

\* loadBlockMetaData: each line's block gets the running sum of the lengths
\* before it as its offset.
RECURSIVE loadBlockMetaDataFrom(_, _, _)
loadBlockMetaDataFrom(lines, offset, vec) ==
    IF lines = <<>> THEN vec
    ELSE loadBlockMetaDataFrom(Tail(lines), offset + Head(lines).length,
             Append(vec, [offset |-> offset, length |-> Head(lines).length,
                          lastDocID |-> Head(lines).lastDocID]))

loadBlockMetaData(lines) == loadBlockMetaDataFrom(lines, 0, <<>>)

\* The ifstream readInvertedIndices opens on index.bin: its read position
\* and its failbit.
OpenedStream == [pos |-> 0, fail |-> FALSE]

\* openList without the seekg: the read starts where the stream stands.
openListNoSeek(term, lexiconMap, index, stream) ==
    IF term \notin DOMAIN lexiconMap THEN [buffer |-> <<>>, stream |-> stream]
    ELSE LET e == lexiconMap[term]
             avail == Min(e.length, Len(index) - Min(stream.pos, Len(index)))
         IN  IF stream.fail
             THEN [buffer |-> [k \in 1..e.length |-> 0], stream |-> stream]
             ELSE [buffer |-> [k \in 1..e.length |->
                                  IF k <= avail THEN index[stream.pos + k] ELSE 0],
                   stream |-> [pos |-> stream.pos + avail,
                               fail |-> avail < e.length]]

\* openList on the stream it is handed: an empty buffer when the term is not
\* in the lexicon (the stream is not touched); otherwise seekg(offset) and
\* read(length) into a zeroed buffer of `length` bytes.  A stream whose
\* failbit is set neither seeks nor reads; a read that meets the end of the
\* file stores what there is and sets the failbit.
openListOn(term, lexiconMap, index, stream) ==
    IF term \notin DOMAIN lexiconMap THEN [buffer |-> <<>>, stream |-> stream]
    ELSE LET e == lexiconMap[term]
             avail == Min(e.length, Len(index) - Min(e.offset, Len(index)))
         IN  IF stream.fail
             THEN [buffer |-> [k \in 1..e.length |-> 0], stream |-> stream]
             ELSE [buffer |-> [k \in 1..e.length |->
                                  IF k <= avail THEN index[e.offset + k] ELSE 0],
                   stream |-> [pos |-> e.offset + avail,
                               fail |-> avail < e.length]]

\* openList on a freshly opened stream.
openList(term, lexiconMap, index) ==
    openListOn(term, lexiconMap, index, OpenedStream).buffer

\* readInvertedIndices: one stream for all the terms; the lists that are not
\* empty are returned with their terms.  `calls` keeps what each call gave.
RECURSIVE readInvertedIndicesFrom(_, _, _, _, _)
readInvertedIndicesFrom(terms, lexiconMap, index, stream, acc) ==
    IF terms = <<>> THEN acc
    ELSE LET r == openListOn(Head(terms), lexiconMap, index, stream)
         IN  readInvertedIndicesFrom(Tail(terms), lexiconMap, index, r.stream,
                 [invertedLists |->
                      IF r.buffer # <<>>
                      THEN Append(acc.invertedLists,
                                  [term |-> Head(terms), list |-> r.buffer])
                      ELSE acc.invertedLists,
                  calls |-> Append(acc.calls, r.buffer)])

readInvertedIndices(terms, lexiconMap, index) ==
    readInvertedIndicesFrom(terms, lexiconMap, index, OpenedStream,
                            [invertedLists |-> <<>>, calls |-> <<>>])

\* offset < listStartPos and offset > listStartPos with a uint64_t on the
\* left and an int on the right: the int is converted to uint64_t, and a
\* negative one becomes a value above every offset.
U64LessInt(u, i) == i < 0 \/ u < i

U64GreaterInt(u, i) == i >= 0 /\ u > i

\* searchBlockIndex: binary search for the block whose offset is
\* listStartPos; block indices are 0-based as in the code, -1 when not found.
RECURSIVE searchBlockIndexFrom(_, _, _, _)
searchBlockIndexFrom(vec, listStartPos, left, right) ==
    IF left > right THEN -1
    ELSE LET mid == (left + right) \div 2
         IN  IF U64LessInt(vec[mid + 1].offset, listStartPos)
             THEN searchBlockIndexFrom(vec, listStartPos, mid + 1, right)
             ELSE IF U64GreaterInt(vec[mid + 1].offset, listStartPos)
             THEN searchBlockIndexFrom(vec, listStartPos, left, mid - 1)
             ELSE mid

searchBlockIndex(vec, listStartPos) ==
    searchBlockIndexFrom(vec, listStartPos, 0, Len(vec) - 1)

\* searchNextDocID on the 0-based block: the loop from (left, right,
\* foundIndex); reads collects the indices it looked at, and oob is what an
\* index past the end holds.
RECURSIVE searchNextDocIDFrom(_, _, _, _, _, _, _)
searchNextDocIDFrom(block, lookUpDocID, left, right, foundIndex, reads, oob) ==
    IF left > right THEN [foundIndex |-> foundIndex, reads |-> reads]
    ELSE LET mid == (left + right) \div 2
             at  == IF mid < Len(block) THEN block[mid + 1] ELSE oob
         IN  IF at < lookUpDocID
             THEN searchNextDocIDFrom(block, lookUpDocID, mid + 1, right,
                                      foundIndex, reads \cup {mid}, oob)
             ELSE searchNextDocIDFrom(block, lookUpDocID, left, mid - 1,
                                      mid, reads \cup {mid}, oob)

searchNextDocIDFromOne(block, lookUpDocID, oob) ==
    searchNextDocIDFrom(block, lookUpDocID, 1, Len(block), -1, {}, oob)

searchNextDocID(block, lookUpDocID, oob) ==
    searchNextDocIDFrom(block, lookUpDocID, 0, Len(block), -1, {}, oob)

\* blockMetaDataVec[i] (0-based); past the end of the vector the read is
\* undefined and yields g.meta.
MetaAt(vec, i, g) == IF i >= 0 /\ i < Len(vec) THEN vec[i + 1] ELSE g.meta

\* sliceVector(list, start, length); bytes past the end of the buffer are
\* undefined and read as g.byte.
sliceVector(list, start, length, g) ==
    [k \in 1..length |-> IF start + k <= Len(list) THEN list[start + k] ELSE g.byte]

RECURSIVE PrefixSum(_, _)
PrefixSum(gaps, prev) ==
    IF gaps = <<>> THEN <<>>
    ELSE <<Head(gaps) + prev>> \o PrefixSum(Tail(gaps), Head(gaps) + prev)

EndOfList == [docID |-> -1, freq |-> -1]

\* The "while (listRestLength >= 0)" loop of nextGEQ from state st
\* (blockIndex, listRestLength, listStartPos, startOfList).  The result holds
\* the pair returned and what was read: the block-metadata indices, the
\* buffer slice, the indices searchNextDocID looked at.
RECURSIVE nextGEQLoop(_, _, _, _, _)
nextGEQLoop(list, lookUpDocID, vec, g, st) ==
    IF st.listRestLength < 0
    THEN [found |-> EndOfList, metaReads |-> st.metaReads, slices |-> {},
          searchReads |-> {}, blockLen |-> 0, block |-> <<>>, foundIndex |-> -1]
    ELSE
    LET entry == MetaAt(vec, st.blockIndex, g)
        reads == st.metaReads \cup {st.blockIndex}
    IN  IF entry.lastDocID < lookUpDocID
        THEN nextGEQLoop(list, lookUpDocID, vec, g,
                 [blockIndex |-> st.blockIndex + 1,
                  listRestLength |-> st.listRestLength - entry.length,
                  listStartPos |-> st.listStartPos + entry.length,
                  startOfList |-> FALSE, metaReads |-> reads])
        ELSE
        LET listBlock == sliceVector(list, st.listStartPos, entry.length, g)
            decompressed == bytesToIntVec(listBlock)
            n == Len(decompressed) \div 2
            prevtDocID == IF st.startOfList THEN 0
                          ELSE MetaAt(vec, st.blockIndex - 1, g).lastDocID
            docIDListBlock == PrefixSum(SubSeq(decompressed, 1, n), prevtDocID)
            slices == {<<st.listStartPos, entry.length>>}
        IN  IF n = 0
            \* docIDListBlock[size() - 1] of an empty vector: undefined.
            THEN [found |-> [docID |-> g.word, freq |-> g.word],
                  metaReads |-> reads, slices |-> slices,
                  searchReads |-> {-1}, blockLen |-> 0, block |-> <<>>,
                  foundIndex |-> -1]
            ELSE IF docIDListBlock[n] < lookUpDocID
            THEN [found |-> EndOfList, metaReads |-> reads, slices |-> slices,
                  searchReads |-> {}, blockLen |-> n, block |-> docIDListBlock,
                  foundIndex |-> -1]
            ELSE LET s == searchNextDocID(docIDListBlock, lookUpDocID, g.word)
                 IN  [found |->
                         IF s.foundIndex = -1 THEN EndOfList
                         \* An index past the end of either vector reads g.word.
                         ELSE IF s.foundIndex >= n
                         THEN [docID |-> g.word, freq |-> g.word]
                         ELSE [docID |-> docIDListBlock[s.foundIndex + 1],
                               freq |-> decompressed[s.foundIndex + n + 1]],
                      metaReads |-> reads, slices |-> slices,
                      searchReads |-> s.reads, blockLen |-> n,
                      block |-> docIDListBlock, foundIndex |-> s.foundIndex]

\* nextGEQ(invertedList = (term, list), lookUpDocID, blockMetaDataVec, lexiconMap).
nextGEQ(term, list, lookUpDocID, vec, lexiconMap, g) ==
    LET blockIndex == searchBlockIndex(vec, lexiconMap[term].offset)
    IN  IF blockIndex = -1
        THEN [found |-> EndOfList, metaReads |-> {}, slices |-> {},
              searchReads |-> {}, blockLen |-> 0, block |-> <<>>, foundIndex |-> -1]
        ELSE nextGEQLoop(list, lookUpDocID, vec, g,
                 [blockIndex |-> blockIndex,
                  listRestLength |-> lexiconMap[term].length,
                  listStartPos |-> 0, startOfList |-> TRUE, metaReads |-> {}])

(***************************************************************************)
(* SpecQuery: a blocked index is loaded, one term's list is opened and     *)
(* nextGEQ is called on it.                                                *)
(***************************************************************************)
\* The most blocks a posting list has.
MaxBlocks == 3

\* The longest posting list: full blocks and a partial one of two postings
\* (130 postings when blocks hold 64).
MaxPostings == (MaxBlocks - 1) * POSTINGS_PER_BLOCK + 2

ListSizes == {1, 2, POSTINGS_PER_BLOCK, POSTINGS_PER_BLOCK + 1, MaxPostings}

\* n postings with docIDs first, first + step, ... and frequencies 1..3.
MakeList(n, first, step) ==
    [i \in 1..n |-> [docID |-> first + (i - 1) * step, termFreq |-> 1 + (i % 3)]]

ListsOfA == {MakeList(n, f, s) : n \in ListSizes, f \in {1, 5}, s \in {1, 200}}
ListsOfB == {MakeList(n, 2, 2) : n \in ListSizes}

\* The term lists an index is built from: term "a" alone, or "a" then "b".
TermLists ==
    {<<[term |-> <<97>>, postings |-> pa]>> : pa \in ListsOfA}
    \cup {<<[term |-> <<97>>, postings |-> pa], [term |-> <<98>>, postings |-> pb]>> :
             pa \in ListsOfA, pb \in ListsOfB}

\* What main loads: lexiconMap, blockMetaDataVec and the bytes of index.bin;
\* `lists` keeps the posting lists the files were built from.
LoadIndex(lists) ==
    LET b == BuildBlockedIndex(lists, EmptyBlockedIndex)
    IN  [lexiconMap |-> loadLexicon(LexiconLinesLoaded(LexiconText(b.lexicon))),
         blockMetaDataVec |->
             loadBlockMetaData(BlockMetaDataLinesLoaded(BlockMetaDataText(b.meta))),
         index |-> b.index, lists |-> lists]

\* The posting list of term t in the loaded index.
ListOf(ix, t) ==
    LET i == CHOOSE j \in 1..Len(ix.lists) : ix.lists[j].term = t
    IN  ix.lists[i].postings

\* Targets around the ends of the list and around its block boundaries.
TargetsFor(P) ==
    {0, P[1].docID, P[1].docID + 1, P[Len(P)].docID - 1, P[Len(P)].docID,
     P[Len(P)].docID + 1, P[Len(P)].docID + 2}
    \cup UNION {{P[k].docID, P[k].docID + 1} :
                   k \in {j \in 1..Len(P) : j % POSTINGS_PER_BLOCK = 0}}

\* What a read outside an object may yield: a block-metadata entry, a buffer
\* byte, an int.
Garbage ==
    [meta : {[offset |-> 0, length |-> 2, lastDocID |-> IntMin],
             [offset |-> 0, length |-> 2, lastDocID |-> IntMax]},
     byte : Uninit,
     word : {0, IntMax}]

InitQuery ==
    /\ qindex \in {LoadIndex(l) : l \in TermLists}
    /\ qterm \in DOMAIN qindex.lexiconMap
    /\ qlist = <<>> /\ qtarget = 0 /\ qres = <<>> /\ qprev = <<>>
    /\ qquery = <<>> /\ qcalls = <<>> /\ invertedLists = <<>> /\ qfiles = <<>>
    /\ qpc = "loaded"
    /\ PipelineOff /\ CodecOff

OpenList ==
    /\ qpc = "loaded"
    /\ qlist' = openList(qterm, qindex.lexiconMap, qindex.index)
    /\ qpc' = "opened"
    /\ UNCHANGED <<qindex, qterm, qtarget, qres, qprev, qfiles, qquery, qcalls,
                   invertedLists>>
    /\ UNCHANGED <<codecVars, builderVars, mergerVars, readbackVars>>

NextGEQ ==
    /\ qpc = "opened"
    /\ \E target \in TargetsFor(ListOf(qindex, qterm)), g \in Garbage :
          /\ qtarget' = target
          /\ qres' = nextGEQ(qterm, qlist, target, qindex.blockMetaDataVec,
                             qindex.lexiconMap, g)
    /\ qpc' = "returned"
    /\ UNCHANGED <<qindex, qterm, qlist, qprev, qfiles, qquery, qcalls, invertedLists>>
    /\ UNCHANGED <<codecVars, builderVars, mergerVars, readbackVars>>

\* A further nextGEQ call on the same opened list, with a target that is not
\* below the one before.  nextGEQ takes the list, the target, the block
\* metadata and the lexicon by const reference and keeps nothing from the
\* call before.
NextGEQAgain ==
    /\ qpc = "returned"
    /\ \E target \in {t \in TargetsFor(ListOf(qindex, qterm)) : t >= qtarget},
          g \in Garbage :
          /\ qtarget' = target
          /\ qres' = nextGEQ(qterm, qlist, target, qindex.blockMetaDataVec,
                             qindex.lexiconMap, g)
    /\ qprev' = [target |-> qtarget, found |-> qres.found]
    /\ qpc' = "returnedAgain"
    /\ UNCHANGED <<qindex, qterm, qlist, qfiles, qquery, qcalls, invertedLists>>
    /\ UNCHANGED <<codecVars, builderVars, mergerVars, readbackVars>>

NextQuery == OpenList \/ NextGEQ \/ NextGEQAgain

SpecQuery == InitQuery /\ [][NextQuery]_vars

(***************************************************************************)
(* Opening the lists of a query (query.cpp, readInvertedIndices)           *)
(***************************************************************************)
MaxQuery == 2

\* A term no lexicon of TermLists holds.
AbsentTerm == <<99>>

\* The queries over the terms of a lexicon and the absent term.
Queries(lexiconMap) ==
    UNION {[1..n -> DOMAIN lexiconMap \cup {AbsentTerm}] : n \in 1..MaxQuery}

InitOpenList ==
    /\ qindex \in {LoadIndex(l) : l \in TermLists}
    /\ qquery \in Queries(qindex.lexiconMap)
    /\ qterm = <<>> /\ qlist = <<>> /\ qtarget = 0 /\ qres = <<>> /\ qprev = <<>>
    /\ qcalls = <<>> /\ invertedLists = <<>> /\ qfiles = <<>>
    /\ qpc = "query"
    /\ PipelineOff /\ CodecOff

ReadInvertedIndices ==
    /\ qpc = "query"
    /\ LET r == readInvertedIndices(qquery, qindex.lexiconMap, qindex.index)
       IN  /\ qcalls' = r.calls
           /\ invertedLists' = r.invertedLists
    /\ qpc' = "read"
    /\ UNCHANGED <<qindex, qterm, qlist, qtarget, qres, qprev, qfiles, qquery>>
    /\ UNCHANGED <<codecVars, builderVars, mergerVars, readbackVars>>

NextOpenList == ReadInvertedIndices

SpecOpenList == InitOpenList /\ [][NextOpenList]_vars

(***************************************************************************)
(* Loading lexicon.txt and blockMetaData.txt (query.cpp, main)             *)
(***************************************************************************)
\* The files of the index built from `lists`.
FilesOf(lists) ==
    LET b == BuildBlockedIndex(lists, EmptyBlockedIndex)
    IN  [lexicon |-> LexiconText(b.lexicon), meta |-> BlockMetaDataText(b.meta),
         index |-> b.index, lists |-> lists]

\* A line damaged on disk: its last token lost, or its last token no number.
Damaged(line, kind) ==
    IF kind = "short" THEN SubSeq(line, 1, Len(line) - 1)
    ELSE [line EXCEPT ![Len(line)] = <<120>>]

DamageKinds == {"short", "garbled"}

\* The files with nothing damaged, or with one line of lexicon.txt or of
\* blockMetaData.txt damaged.
FilesOnDisk(lists) ==
    LET f == FilesOf(lists)
    IN  {f}
        \cup {[f EXCEPT !.lexicon[i] = Damaged(@, k)] :
                  i \in 1..Len(f.lexicon), k \in DamageKinds}
        \cup {[f EXCEPT !.meta[i] = Damaged(@, k)] :
                  i \in 1..Len(f.meta), k \in DamageKinds}

InitLoad ==
    /\ qfiles \in UNION {FilesOnDisk(l) : l \in TermLists}
    /\ qindex = <<>> /\ qterm = <<>> /\ qlist = <<>> /\ qtarget = 0
    /\ qres = <<>> /\ qprev = <<>>
    /\ qquery = <<>> /\ qcalls = <<>> /\ invertedLists = <<>>
    /\ qpc = "start"
    /\ PipelineOff /\ CodecOff

\* main: lexiconMap = loadLexicon(lexiconFilePath), which returns whatever
\* lines parsed.
LoadLexicon ==
    /\ qpc = "start"
    /\ qindex' = [lexiconMap |-> loadLexicon(LexiconLinesLoaded(qfiles.lexicon)),
                  blockMetaDataVec |-> <<>>,
                  index |-> qfiles.index, lists |-> qfiles.lists]
    /\ qpc' = "lexiconLoaded"
    /\ UNCHANGED <<qterm, qlist, qtarget, qres, qprev, qfiles, qquery, qcalls,
                   invertedLists>>
    /\ UNCHANGED <<codecVars, builderVars, mergerVars, readbackVars>>

\* main: blockMetaDataVec = loadBlockMetaData(blockMetaDataFilePath); the
\* queries are answered from what was loaded.
LoadBlockMetaData ==
    /\ qpc = "lexiconLoaded"
    /\ qindex' = [qindex EXCEPT !.blockMetaDataVec =
                      loadBlockMetaData(BlockMetaDataLinesLoaded(qfiles.meta))]
    /\ qpc' = "loaded"
    /\ UNCHANGED <<qterm, qlist, qtarget, qres, qprev, qfiles, qquery, qcalls,
                   invertedLists>>
    /\ UNCHANGED <<codecVars, builderVars, mergerVars, readbackVars>>

NextLoad == LoadLexicon \/ LoadBlockMetaData

SpecLoad == InitLoad /\ [][NextLoad]_vars

(***************************************************************************)
(* Block metadata of a large index (query.cpp)                             *)
(*                                                                         *)
(* Lengths and offsets are counted here in units of 2^20 bytes, every      *)
(* block length being a multiple of it: 2^32 bytes are 4096 units and 2^31 *)
(* bytes are 2048 units, and arithmetic modulo 2^32 on the bytes is        *)
(* arithmetic modulo 4096 on the units.                                    *)
(***************************************************************************)
TwoTo32Units == 4096
TwoTo31Units == 2048

MaxBigBlocks == 3

\* Block lengths: 2^20 bytes, 2^31 - 2^20 bytes, 2^32 - 2^20 bytes.
BlockUnits == {1, TwoTo31Units - 1, TwoTo32Units - 1}

\* The lines of blockMetaData.txt: n blocks with ascending lastDocID.
BigMetaData ==
    UNION {{[i \in 1..n |-> [length |-> ls[i], lastDocID |-> i]] :
               ls \in [1..n -> BlockUnits]} : n \in 1..MaxBigBlocks}

\* loadBlockMetaData with its running sum in a uint32_t: the sum wraps at
\* 2^32 and is stored in the entry's uint64_t offset.
RECURSIVE loadBlockMetaDataU32From(_, _, _)
loadBlockMetaDataU32From(lines, offset, vec) ==
    IF lines = <<>> THEN vec
    ELSE loadBlockMetaDataU32From(Tail(lines),
             (offset + Head(lines).length) % TwoTo32Units,
             Append(vec, [offset |-> offset, length |-> Head(lines).length,
                          lastDocID |-> Head(lines).lastDocID]))

loadBlockMetaDataU32(lines) == loadBlockMetaDataU32From(lines, 0, <<>>)

\* int listStartPos = lexiconMap.at(term).offset: the low 32 bits of the
\* uint64_t, read as a signed int.
IntOfU64(offset) ==
    LET low == offset % TwoTo32Units
    IN  IF low >= TwoTo31Units THEN low - TwoTo32Units ELSE low

\* The offset the lexicon holds for a list that starts with block i
\* (0-based): the bytes of index.bin before it, a uint64_t.
RECURSIVE LexiconOffsetOf(_, _)
LexiconOffsetOf(lines, i) ==
    IF i = 0 THEN 0 ELSE lines[i].length + LexiconOffsetOf(lines, i - 1)

InitBigIndex ==
    /\ qfiles \in {[meta |-> m] : m \in BigMetaData}
    /\ qindex = <<>> /\ qterm = <<>> /\ qlist = <<>> /\ qtarget = 0
    /\ qres = <<>> /\ qprev = <<>>
    /\ qquery = <<>> /\ qcalls = <<>> /\ invertedLists = <<>>
    /\ qpc = "bigStart"
    /\ PipelineOff /\ CodecOff

LoadBigBlockMetaData ==
    /\ qpc = "bigStart"
    /\ qindex' = [blockMetaDataVec |-> loadBlockMetaDataU32(qfiles.meta)]
    /\ qpc' = "bigLoaded"
    /\ UNCHANGED <<qterm, qlist, qtarget, qres, qprev, qfiles, qquery, qcalls,
                   invertedLists>>
    /\ UNCHANGED <<codecVars, builderVars, mergerVars, readbackVars>>

\* The head of nextGEQ for a term whose list starts with block `first`:
\* listStartPos is taken from the lexicon and the block is looked up.
SearchFirstBlock ==
    /\ qpc = "bigLoaded"
    /\ \E first \in 0..(Len(qfiles.meta) - 1) :
          LET offset == LexiconOffsetOf(qfiles.meta, first)
              listStartPos == IntOfU64(offset)
          IN  qres' = [first |-> first, offset |-> offset,
                       listStartPos |-> listStartPos,
                       blockIndex |-> searchBlockIndex(qindex.blockMetaDataVec,
                                                       listStartPos)]
    /\ qpc' = "bigSearched"
    /\ UNCHANGED <<qindex, qterm, qlist, qtarget, qprev, qfiles, qquery, qcalls,
                   invertedLists>>
    /\ UNCHANGED <<codecVars, builderVars, mergerVars, readbackVars>>

NextBigIndex == LoadBigBlockMetaData \/ SearchFirstBlock

SpecBigIndex == InitBigIndex /\ [][NextBigIndex]_vars

\* (d, f) is the posting of P with the smallest docID >= target.
IsNextPosting(P, target, found) ==
    \E i \in 1..Len(P) :
        /\ P[i].docID = found.docID /\ P[i].termFreq = found.freq
        /\ found.docID >= target
        /\ \A j \in 1..Len(P) : P[j].docID >= target => P[j].docID >= found.docID

\* The 0-based block-metadata indices of term t's own ceil(docFreq/64) blocks.
OwnBlocks(ix, t) ==
    LET first == searchBlockIndex(ix.blockMetaDataVec, ix.lexiconMap[t].offset)
        count == (ix.lexiconMap[t].docFreq + POSTINGS_PER_BLOCK - 1)
                     \div POSTINGS_PER_BLOCK
    IN  first..(first + count - 1)

\* C1: nextGEQ on a term's opened list returns EndOfList or the posting
\* (d, f) of the list with the smallest docID d >= target and its stored
\* frequency f.
C1_EndOfListOrNextPosting ==
    qpc = "returned" =>
        \/ qres.found = EndOfList
        \/ IsNextPosting(ListOf(qindex, qterm), qtarget, qres.found)

\* C2: when every block of the term's list has lastDocID < target, nextGEQ
\* returns EndOfList, and it inspects no block-metadata entry and no buffer
\* bytes outside the term's own blocks.
C2_ExhaustedListStaysInside ==
    LET P == ListOf(qindex, qterm)
    IN  (qpc = "returned" /\ P[Len(P)].docID < qtarget) =>
            /\ qres.found = EndOfList
            /\ qres.metaReads \subseteq OwnBlocks(qindex, qterm)
            /\ \A s \in qres.slices : s[1] + s[2] <= Len(qlist)

\* C11 (as claimed): successive calls with non-decreasing targets advance a
\* cursor, so a call that follows one which returned a posting returns
\* EndOfList or a posting further on in the list: no posting is visited twice.
C11_SuccessiveCallsAdvance ==
    (qpc = "returnedAgain" /\ qprev.found # EndOfList) =>
        \/ qres.found = EndOfList
        \/ qres.found.docID > qprev.found.docID

\* The bytes of index.bin a lexicon entry names.
EntryBytes(ix, t) ==
    SubSeq(ix.index, ix.lexiconMap[t].offset + 1,
           ix.lexiconMap[t].offset + ix.lexiconMap[t].length)

\* C14: each openList call of a query returns the empty buffer (not found)
\* for a term the lexicon does not hold and otherwise exactly the `length`
\* bytes of index.bin from `offset`, whatever calls went before it on the same
\* stream; the lists returned are those of the terms found, in query order.
C14_OpenListDependsOnOwnTerm ==
    qpc = "read" =>
        /\ Len(qcalls) = Len(qquery)
        /\ \A i \in 1..Len(qquery) :
              IF qquery[i] \in DOMAIN qindex.lexiconMap
              THEN qcalls[i] = EntryBytes(qindex, qquery[i]) /\ qcalls[i] # <<>>
              ELSE qcalls[i] = <<>>
        /\ LET found == SelectSeq(qquery, LAMBDA t : t \in DOMAIN qindex.lexiconMap)
           IN  invertedLists = [i \in 1..Len(found) |->
                                   [term |-> found[i],
                                    list |-> EntryBytes(qindex, found[i])]]

\* A query whose first term's list ends index.bin and whose second term's
\* list starts it, read on one stream.
C14_Witness ==
    /\ qpc = "read" /\ Len(qquery) = 2
    /\ qquery[1] \in DOMAIN qindex.lexiconMap
    /\ qquery[2] \in DOMAIN qindex.lexiconMap
    /\ qindex.lexiconMap[qquery[1]].offset + qindex.lexiconMap[qquery[1]].length
           = Len(qindex.index)
    /\ qindex.lexiconMap[qquery[2]].offset = 0
    /\ qquery[1] # qquery[2]
    /\ Len(invertedLists) = 2

\* Every line of the two files parses.
WellFormedFiles(f) ==
    /\ \A i \in 1..Len(f.lexicon) : ParseLexiconLine(f.lexicon[i]).ok
    /\ \A i \in 1..Len(f.meta) : ParseBlockMetaDataLine(f.meta[i]).ok

\* C15 (as claimed): a malformed line of lexicon.txt or blockMetaData.txt is
\* fatal at load time, so the loaders hand over a Lexicon and a BlockIndex
\* only when every line parsed, and the block offsets are then the running
\* sums over all the lines of blockMetaData.txt.
C15_MalformedLineIsFatal ==
    qpc = "loaded" =>
        /\ WellFormedFiles(qfiles)
        /\ Len(qindex.blockMetaDataVec) = Len(qfiles.meta)
        /\ DOMAIN qindex.lexiconMap = {qfiles.lexicon[i][1] : i \in 1..Len(qfiles.lexicon)}

\* The words of a text: the maximal runs of bytes that are alphanumeric or
\* above 127, in text order.
RECURSIVE WordsFrom(_, _, _)
WordsFrom(text, word, words) ==
    IF text = <<>> THEN IF word # <<>> THEN Append(words, word) ELSE words
    ELSE IF isalnum(Head(text)) \/ Head(text) > 127
         THEN WordsFrom(Tail(text), Append(word, Head(text)), words)
         ELSE WordsFrom(Tail(text), <<>>,
                        IF word # <<>> THEN Append(words, word) ELSE words)

\* The lowercased words of the text that hold no byte above 127 and are no
\* stop words.
TokensOfASCIIWords(text) ==
    LET clean == SelectSeq(WordsFrom(text, <<>>, <<>>), isASCII)
        lower == [i \in 1..Len(clean) |->
                     [k \in 1..Len(clean[i]) |-> tolower(clean[i][k])]]
    IN  SelectSeq(lower, LAMBDA w : w \notin stopWords)

\* C17 (as claimed): the tokenizer emits no token for a word that holds a
\* byte above 127, so the tokens are those of the all-ASCII words, and every
\* token is a nonempty string of lowercase ASCII letters and digits.
C17_NonASCIIWordEmitsNoToken ==
    bpc = "tokenized" =>
        /\ tokens = TokensOfASCIIWords(passage)
        /\ \A i \in 1..Len(tokens) :
              /\ tokens[i] # <<>>
              /\ \A k \in 1..Len(tokens[i]) :
                    tokens[i][k] \in 48..57 \/ tokens[i][k] \in 97..122

\* The bytes of one term record of a run file.
RecordBytes(rec) ==
    U32Bytes(Len(rec.term)) \o rec.term \o U32Bytes(Len(rec.postings))
    \o EncodePostings(rec.postings)

\* The file lengths at which a run file of these records ends at a record
\* boundary.
RecordBoundaries(records) ==
    {Len(Concat([i \in 1..k |-> RecordBytes(records[i])])) : k \in 0..Len(records)}

\* Run file i ends inside one of its term records.
EndsInsideRecord(i) == Len(runFiles[i]) \notin RecordBoundaries(runRecords[i])

\* C16 (as claimed): a run file that ends anywhere inside a term record makes
\* the merge abort with an error, so the merge completes only when every run
\* file ends at a record boundary.
C16_TruncatedRunAborts ==
    mpc = "done" => \A i \in 1..Len(runFiles) : ~EndsInsideRecord(i)

\* Reader r of run file i holds the k-th record written to the file.
HoldsRecord(r, i, k) ==
    /\ r.pos = 1 + Len(Concat([j \in 1..k |-> RecordBytes(runRecords[i][j])]))
    /\ r.currentTerm = runRecords[i][k].term
    /\ r.currentPostings = runRecords[i][k].postings

\* C18 (as claimed): what a reader of the Merger holds is a record the Block
\* Builder wrote to that run file, term, docIDs and frequencies alike, also
\* when a docID or a frequency is 128 or more.
C18_RunReaderYieldsWrittenRecords ==
    mpc \in {"loop", "same", "done"} =>
        \A i \in 1..Len(readers) :
            hasNext(readers[i]) =>
                \E k \in 1..Len(runRecords[i]) : HoldsRecord(readers[i], i, k)

\* How many times the posting (term, docID, freq) was appended to the
\* accumulator, and how many times it stands in the run files.
AppendedCount(term, docID, freq) ==
    Cardinality({l \in 1..Len(collection) :
                    /\ collection[l].hasTab /\ collection[l].docID = docID
                    /\ freq > 0 /\ collection[l].counts[term] = freq})

WrittenCount(term, docID, freq) ==
    Cardinality(UNION {UNION {{<<i, k, j>> : j \in {n \in 1..Len(runRecords[i][k].postings) :
                                   /\ runRecords[i][k].term = term
                                   /\ runRecords[i][k].postings[n]
                                          = [docID |-> docID, termFreq |-> freq]}} :
                              k \in 1..Len(runRecords[i])} :
                       i \in 1..Len(runRecords)})

\* After end of input every appended posting stands in the run files once.
EveryPostingWrittenOnce ==
    bpc = "done" =>
        \A term \in Terms, docID \in DocIDs, freq \in 1..MaxFreq :
            WrittenCount(term, docID, freq) = AppendedCount(term, docID, freq)

\* Run file k (0-based) is the k-th written, and none is written from an
\* empty accumulator.
RunsNumberedNoneEmpty ==
    /\ blockCount = Len(runFiles) /\ Len(runRecords) = Len(runFiles)
    /\ \A i \in 1..Len(runRecords) :
          /\ runRecords[i] # <<>>
          /\ \A k \in 1..Len(runRecords[i]) : runRecords[i][k].postings # <<>>

\* C19 (as claimed): after end of input every appended posting has been
\* written to exactly one run file, the run files are numbered without gaps,
\* none is written from an empty accumulator, and each flush, the one at end
\* of input included, leaves the accumulator empty and the size estimate 0.
C19_EveryFlushClearsAccumulator ==
    /\ [](EveryPostingWrittenOnce /\ RunsNumberedNoneEmpty)
    /\ [][Len(runFiles') > Len(runFiles)
            => invertedIndex' = EmptyIndex /\ currentBlockSize' = 0]_vars

\* C20 (as claimed): the heap is ordered by (currentTerm, runIndex), so an
\* entry that is popped has the smallest run index among the entries of the
\* heap that hold the same term.
C20_EqualTermsReleasedByRunIndex ==
    [][\A e \in minHeap \ minHeap' :
          \A o \in minHeap : o[1] = e[1] => e[2] <= o[2]]_vars

\* C21 (as claimed): for an index of any size every loaded block has the
\* exact sum of the lengths of the blocks before it as its offset, and the
\* lookup of a term's first block by its lexicon offset returns that block,
\* also past 2^31 - 1 and 2^32 - 1 bytes.
C21_FirstBlockFoundExactly ==
    /\ qpc \in {"bigLoaded", "bigSearched"} =>
          \A i \in 1..Len(qfiles.meta) :
              qindex.blockMetaDataVec[i].offset = LexiconOffsetOf(qfiles.meta, i - 1)
    /\ qpc = "bigSearched" => qres.blockIndex = qres.first

\* The heap entries of the readers that are not at end of file.
LiveEntries == {<<readers[i].currentTerm, i>> : i \in {j \in 1..Len(readers) : hasNext(readers[j])}}

\* The position of the reader of run file i after its k-th record.
PosAfterRecord(i, k) ==
    1 + Len(Concat([j \in 1..k |-> RecordBytes(runRecords[i][j])]))

\* The merged lists record k of run file i went into.
ListsHolding(i, k) ==
    {n \in 1..Len(emitted) : <<i, PosAfterRecord(i, k)>> \in emitted[n].from}

\* What the readers have still to do: the bytes not yet read, and one end of
\* file to meet per reader.
Unread(rs) ==
    LET left[i \in 0..Len(rs)] ==
            IF i = 0 THEN 0
            ELSE left[i - 1] + (Len(runFiles[i]) + 1 - rs[i].pos)
                 + (IF hasNext(rs[i]) THEN 1 ELSE 0)
    IN  left[Len(rs)]

\* C22: at the start of every iteration of the merge loop the heap holds
\* one entry per reader that is not at end of file, keyed by the reader's
\* current term, and none for a reader at end of file; when the merge is
\* done all readers are at end of file and every term record of every run
\* has gone into exactly one merged list, one of its own term; and the loop
\* ends, since every pop leaves the readers with less to read and the loop
\* is left as soon as the heap is empty, that is, all readers are at end of
\* file.
C22_HeapHoldsLiveReaders ==
    /\ [](mpc = "loop" => minHeap = LiveEntries)
    /\ [](mpc = "done" =>
            /\ \A i \in 1..Len(readers) : ~hasNext(readers[i])
            /\ \A i \in 1..Len(runRecords) : \A k \in 1..Len(runRecords[i]) :
                  /\ Cardinality(ListsHolding(i, k)) = 1
                  /\ \A n \in ListsHolding(i, k) :
                        emitted[n].term = runRecords[i][k].term)
    /\ [][(mpc \in {"loop", "same"} /\ readers' # readers)
            => Unread(readers') < Unread(readers)]_vars
    /\ [][(mpc = "loop" /\ minHeap = {}) => mpc' = "done"]_vars

\* A loop iteration that starts with one reader at end of file and another
\* still holding a term, after a list has been written.
C22_Witness ==
    /\ mpc = "loop" /\ Len(readers) = 2 /\ emitted # <<>>
    /\ \E i \in 1..2 : ~hasNext(readers[i])
    /\ \E i \in 1..2 : hasNext(readers[i])
    /\ Cardinality(minHeap) = 1

\* C23: whenever nextGEQ runs searchNextDocID on a decoded block of n >= 1
\* docIDs whose last docID is not below the target, the search reads only
\* indices 0..n-1 of the block, although it starts with right = n, and
\* returns the smallest index whose docID is not below the target, never -1.
SearchRan == qpc \in {"returned", "returnedAgain"} /\ qres.blockLen > 0
                 /\ qres.searchReads # {}

C23_SearchStaysInBlock ==
    (SearchRan /\ qres.block[qres.blockLen] >= qtarget) =>
        /\ Len(qres.block) = qres.blockLen
        /\ qres.searchReads \subseteq 0..(qres.blockLen - 1)
        /\ qres.foundIndex \in 0..(qres.blockLen - 1)
        /\ qres.block[qres.foundIndex + 1] >= qtarget
        /\ \A j \in 0..(qres.foundIndex - 1) : qres.block[j + 1] < qtarget
        /\ qres.found.docID = qres.block[qres.foundIndex + 1]

C23_Witness ==
    /\ SearchRan
    /\ qres.blockLen = POSTINGS_PER_BLOCK
    /\ qres.block[qres.blockLen] = qtarget
    /\ qres.foundIndex = qres.blockLen - 1
    /\ (qres.blockLen - 1) \in qres.searchReads

====
